---- MODULE Spec2Model ----
(***************************************************************************)
(* The purge engine of moist_bot/cogs/purge.py: ChannelPurger (scan,       *)
(* age partition, batch delete with per-item fallback, individual delete)  *)
(* and the orchestration of Purge._validate_and_purge (validate, confirm,  *)
(* prepare, purge, report).  One step of the model is the code that runs   *)
(* between two awaits, together with the outcome of the awaited call.      *)
(***************************************************************************)
EXTENDS Integers, Sequences, FiniteSets, TLC

(***************************************************************************)
(* Program constants.                                                      *)
(***************************************************************************)
BULK_DELETE_LIMIT == 14
CHUNK_SIZE == 100
MIN_LIMIT == 1
MAX_LIMIT == 2000
SCAN_FACTOR == 5
SCAN_CAP == 5000
CONFIRM_THRESHOLD == 100
TOP_AUTHORS == 10
AFTER_LIMIT == 2000

(***************************************************************************)
(* Bounds of the model.                                                    *)
(***************************************************************************)
MaxItems == 3
MaxExternal == 1
MaxAuthors == 3
MaxReport == 4
MaxOver == 2
MaxLive == 2
MaxCmd == 2
MaxBody == 2
MaxTick == 2

RunIds == {1, 2}
Now0 == 100

(***************************************************************************)
(* The channel.  A message is identified by its position in the channel's  *)
(* history, newest first (position 1 is the message just before the        *)
(* invoking command, which is position 0).  The channel is given as runs   *)
(* of equal messages: <<n, kind>> stands for n consecutive messages of     *)
(* that kind; a kind gives the message's age in days at time Now0, the     *)
(* verdict of the run's predicate (check) on it and its author's           *)
(* display_name (a number stands for a name).                              *)
(***************************************************************************)
Young == [age |-> 5, match |-> TRUE, author |-> 1]
Edge == [age |-> BULK_DELETE_LIMIT, match |-> TRUE, author |-> 2]
Old == [age |-> 20, match |-> TRUE, author |-> 3]
Skip == [age |-> 5, match |-> FALSE, author |-> 1]
Kinds == {Young, Edge, Old, Skip}

Seg(n, kind) == [n |-> n, kind |-> kind]

RECURSIVE ChannelLen(_)
ChannelLen(ch) ==
    IF ch = <<>> THEN 0 ELSE Head(ch).n + ChannelLen(Tail(ch))

RECURSIVE KindAt(_, _)
KindAt(ch, p) ==
    IF p <= Head(ch).n THEN Head(ch).kind ELSE KindAt(Tail(ch), p - Head(ch).n)

SmallChannels ==
    UNION {[1..n -> {Seg(1, k) : k \in Kinds}] : n \in 0..MaxItems}

LargeChannels ==
    { <<Seg(6, Skip)>>,
      <<Seg(4, Skip), Seg(2, Young)>>,
      <<Seg(11, Old)>>,
      <<Seg(100, Young), Seg(1, Old)>>,
      <<Seg(101, Young)>>,
      <<Seg(150, Young)>>,
      <<Seg(4999, Skip), Seg(2, Young)>> }

Channels == SmallChannels \cup LargeChannels

(***************************************************************************)
(* The inputs of _send_result: the deleted messages' authors, every        *)
(* sequence of up to MaxReport messages by up to MaxAuthors authors.       *)
(***************************************************************************)
By(a) == [age |-> 5, match |-> TRUE, author |-> a]

ReportChannels ==
    UNION {[1..n -> {Seg(1, By(a)) : a \in 1..MaxAuthors}] : n \in 0..MaxReport}

(***************************************************************************)
(* Outcomes with about TOP_AUTHORS authors: d authors with one message     *)
(* each, in the order 1..d, and possibly one more message by one of them.  *)
(***************************************************************************)
WideReportChannels ==
    { [m \in 1..d |-> Seg(1, By(m))] \o
          (IF extra = 0 THEN <<>> ELSE <<Seg(1, By(extra))>>) :
      d \in (TOP_AUTHORS - MaxOver)..(TOP_AUTHORS + MaxOver),
      extra \in 0..(TOP_AUTHORS + MaxOver) }

Limits == {0, 1, 2, 100, 101, 2000, 2001}

VARIABLES
    channel,     \* the channel's history (runs of messages), fixed for a behaviour
    now,         \* discord.utils.utcnow(), in days
    gone,        \* positions of the messages no longer in the channel
    external,    \* number of deletions by other actors so far
    runnable,    \* the command invocations that take place
    pc,          \* where each invocation is (the await it is suspended at)
    limit,       \* _validate_and_purge's limit
    interaction, \* ctx.interaction is set (slash command) or not (text command)
    bulk_cutoff, \* purge's bulk_cutoff
    examined,    \* number of messages the history iterator has yielded
    cursor,      \* position of the last message the history iterator yielded
    before,      \* ChannelPurger.before: a position, or None
    after,       \* ChannelPurger.after: a position, or None
    pattern,     \* flags.pattern of a regex command, or NoPattern
    messages,    \* purge's messages
    bulk_msgs,   \* purge's bulk_msgs
    old_msgs,    \* purge's old_msgs
    i,           \* _bulk_delete's i
    j,           \* index in chunk of the fallback loop of _bulk_delete
    k,           \* index in old_msgs of purge's final loop
    deleted,     \* ChannelPurger.deleted
    calls,       \* the confirm, prepare, delete and batch calls issued, with results
    result,      \* what the invocation answered
    report       \* the embed _send_result sent: count, breakdown lines, remainder

vars == <<channel, now, gone, external, runnable, pc, limit, interaction, bulk_cutoff,
          examined, cursor, before, after, pattern, messages, bulk_msgs, old_msgs,
          i, j, k, deleted, calls, result, report>>

(***************************************************************************)
(* ctx.message of run r: the command of run 1 is position 0, that of run 2 *)
(* came after it.  A command message is new, written by the invoker, and   *)
(* the default predicate accepts it.  None is the missing bound.           *)
(***************************************************************************)
None == -9

InvocationId(r) == 1 - r

Invocation == [age |-> 0, match |-> TRUE, author |-> 0]

KindOf(m) == IF m <= 0 THEN Invocation ELSE KindAt(channel, m)

created_at(m) == Now0 - KindOf(m).age
check(m) == KindOf(m).match
display_name(m) == KindOf(m).author

Min(a, b) == IF a <= b THEN a ELSE b

Call(op, site, items, res) == [op |-> op, site |-> site, items |-> items, res |-> res]

Upd_Shared(f, r, v) == [q \in RunIds |-> v]

Upd(f, r, v) == [f EXCEPT ![r] = v]

Items(s) == {s[n] : n \in 1..Len(s)}

(***************************************************************************)
(* Purge._validate_and_purge: the tests on limit.                          *)
(***************************************************************************)
ValidLimit_NoUpper(lim) == ~(lim < MIN_LIMIT)

ValidLimit(lim) == ~(lim < MIN_LIMIT \/ lim > MAX_LIMIT)

NeedsConfirm_AtThreshold(lim) == lim >= CONFIRM_THRESHOLD

NeedsConfirm_Never(lim) == FALSE

NeedsConfirm(lim) == lim > CONFIRM_THRESHOLD

Confirmed_UnlessDeclined(ans) == ans # "no"

Confirmed(ans) == ans = "yes"

(***************************************************************************)
(* ChannelPurger.purge: the scan ceiling, the end of the scan, the age     *)
(* partition.                                                              *)
(***************************************************************************)
scan_limit_Uncapped(lim) == lim * SCAN_FACTOR

scan_limit(lim) == Min(lim * SCAN_FACTOR, SCAN_CAP)

Collect_Unchecked(msgs, m) == Append(msgs, m)

Collect(msgs, m) == IF check(m) THEN Append(msgs, m) ELSE msgs

LimitReached(msgs, lim) == Len(msgs) >= lim

IsBulk_Inclusive(m, cutoff) == created_at(m) >= cutoff

IsBulk(m, cutoff) == created_at(m) > cutoff

IsOld(m, cutoff) == created_at(m) <= cutoff

BulkOf(msgs, cutoff) ==
    LET keep(m) == IsBulk(m, cutoff) IN SelectSeq(msgs, keep)

OldOf(msgs, cutoff) ==
    LET keep(m) == IsOld(m, cutoff) IN SelectSeq(msgs, keep)

(***************************************************************************)
(* channel.history(limit=scan_limit, before=self.before, after=self.after) *)
(* yields the messages older than before and newer than after that are     *)
(* still in the channel: newest first, or oldest first when after is given *)
(* (discord.py's default for oldest_first).  NextItem(r, c) is the message *)
(* that follows position c, or None when there is none.                    *)
(***************************************************************************)
oldest_first(r) == after[r] # None

Newest(r) == IF before[r] = None THEN InvocationId(r) ELSE before[r] + 1

RECURSIVE NextItem(_, _)
NextItem(r, c) ==
    IF oldest_first(r)
    THEN IF c - 1 < Newest(r) THEN None
         ELSE IF c - 1 \in gone THEN NextItem(r, c - 1)
         ELSE c - 1
    ELSE IF c + 1 > ChannelLen(channel) THEN None
         ELSE IF c + 1 \in gone THEN NextItem(r, c + 1)
         ELSE c + 1

HasNext(r) == examined[r] < scan_limit(limit[r]) /\ NextItem(r, cursor[r]) # None

(***************************************************************************)
(* ChannelPurger._bulk_delete: the chunk at i, and which call it gets.     *)
(***************************************************************************)
Chunk_OffByOne(msgs, at) == SubSeq(msgs, at + 1, Min(at + CHUNK_SIZE + 1, Len(msgs)))

Chunk(msgs, at) == SubSeq(msgs, at + 1, Min(at + CHUNK_SIZE, Len(msgs)))

UseSingle_Never(chunk) == FALSE

UseSingle(chunk) == Len(chunk) = 1

(***************************************************************************)
(* _send_result: the authors dict (insertion-ordered: name, count), built  *)
(* by the loop over deleted; sorted(..., key=itemgetter(1), reverse=True), *)
(* a stable sort by descending count; the embed with the first TOP_AUTHORS *)
(* lines and the number of authors left out.  authors(dl, lo, hi) is the   *)
(* dict the loop builds over dl[lo..hi]; the loop over dl[lo..hi] is the   *)
(* loop over dl[lo..mid] continued over dl[mid+1..hi], and continuing with *)
(* a run of messages adds its counts name by name in first-seen order.     *)
(* The({F(x) : x \in {e}}) is F(e) with e computed once.                   *)
(***************************************************************************)
The(S) == CHOOSE y \in S : TRUE

Add(auth, name, c) ==
    IF \E p \in 1..Len(auth) : auth[p][1] = name
    THEN LET p == CHOOSE q \in 1..Len(auth) : auth[q][1] = name
         IN SubSeq(auth, 1, p - 1) \o << <<name, auth[p][2] + c>> >>
                \o SubSeq(auth, p + 1, Len(auth))
    ELSE Append(auth, <<name, c>>)

RECURSIVE Continue(_, _, _)
Continue(auth, more, n) ==
    IF n = 0 THEN auth
    ELSE The({Add(sofar, more[n][1], more[n][2]) :
                  sofar \in {Continue(auth, more, n - 1)}})

RECURSIVE authors(_, _, _)
authors(dl, lo, hi) ==
    IF lo > hi THEN <<>>
    ELSE IF lo = hi THEN << <<display_name(dl[lo]), 1>> >>
    ELSE LET mid == (lo + hi) \div 2
         IN The({Continue(fst, snd, Len(snd)) :
                     fst \in {authors(dl, lo, mid)},
                     snd \in {authors(dl, mid + 1, hi)}})

Ahead_TiesBehind(srt, x) == Cardinality({p \in 1..Len(srt) : srt[p][2] > x[2]})

Ahead(srt, x) == Cardinality({p \in 1..Len(srt) : srt[p][2] >= x[2]})

InsertSorted(srt, x) ==
    SubSeq(srt, 1, Ahead(srt, x)) \o <<x>> \o SubSeq(srt, Ahead(srt, x) + 1, Len(srt))

RECURSIVE sorted_authors(_, _)
sorted_authors(auth, n) ==
    IF n = 0 THEN <<>>
    ELSE The({InsertSorted(srt, auth[n]) : srt \in {sorted_authors(auth, n - 1)}})

NoEmbed == [count |-> 0, breakdown |-> <<>>, more |-> 0]

Remainder_Total(n) == IF n > TOP_AUTHORS THEN n ELSE 0

Remainder(n) == IF n > TOP_AUTHORS THEN n - TOP_AUTHORS ELSE 0

Embed(dl) ==
    The({ [count |-> Len(dl),
           breakdown |-> SubSeq(srt, 1, Min(TOP_AUTHORS, Len(srt))),
           more |-> Remainder(Len(srt))] :
          srt \in {sorted_authors(auth, Len(auth)) : auth \in {authors(dl, 1, Len(dl))}} })

ResultKind_Summary(count) == "summary"

ResultKind(count) == IF count = 0 THEN "nothing" ELSE "summary"

(***************************************************************************)
(* The platform's answers.  delete: Ok, NotFound (the message is gone) or  *)
(* another HTTPException; delete_messages: Ok or an HTTPException, and     *)
(* always an HTTPException when one of the messages is older than          *)
(* BULK_DELETE_LIMIT at the time of the call.                              *)
(***************************************************************************)
DeleteOutcomes(m) == IF m \in gone THEN {"notfound", "hard"} ELSE {"ok", "hard"}

TooOld(m) == created_at(m) < now - BULK_DELETE_LIMIT

BatchOutcomes(chunk) ==
    IF \E n \in 1..Len(chunk) : TooOld(chunk[n]) THEN {"hard"} ELSE {"ok", "hard"}

ConfirmAnswers == {"yes", "no", "timeout"}

NoPattern == [text |-> "", compiles |-> TRUE]

InitWith(chs, runs) ==
    /\ channel \in chs
    /\ now = Now0
    /\ gone = {}
    /\ external = 0
    /\ runnable = runs
    /\ pc = [r \in RunIds |-> "idle"]
    /\ limit = [r \in RunIds |-> 0]
    /\ interaction = [r \in RunIds |-> FALSE]
    /\ bulk_cutoff = [r \in RunIds |-> 0]
    /\ examined = [r \in RunIds |-> 0]
    /\ cursor = [r \in RunIds |-> 0]
    /\ before = [r \in RunIds |-> None]
    /\ after = [r \in RunIds |-> None]
    /\ pattern = [r \in RunIds |-> NoPattern]
    /\ messages = [r \in RunIds |-> <<>>]
    /\ bulk_msgs = [r \in RunIds |-> <<>>]
    /\ old_msgs = [r \in RunIds |-> <<>>]
    /\ i = [r \in RunIds |-> 0]
    /\ j = [r \in RunIds |-> 0]
    /\ k = [r \in RunIds |-> 0]
    /\ deleted = [r \in RunIds |-> <<>>]
    /\ calls = [r \in RunIds |-> <<>>]
    /\ result = [r \in RunIds |-> "none"]
    /\ report = [r \in RunIds |-> NoEmbed]

Init == InitWith(Channels, {1})

(***************************************************************************)
(* A purge command is invoked: _validate_and_purge runs up to its first    *)
(* await (the reply to an invalid limit, the prompt, or _prepare).         *)
(***************************************************************************)
Invoked(r, lim, inter) ==
    /\ pc[r] = "idle"
    /\ r \in runnable
    /\ limit' = Upd(limit, r, lim)
    /\ interaction' = Upd(interaction, r, inter)
    /\ UNCHANGED <<report, channel, now, gone, external, runnable, bulk_cutoff, examined,
                   messages, bulk_msgs, old_msgs, i, j, k, deleted, calls>>

Validate(r, lim) ==
    IF ~ValidLimit(lim)
    THEN pc' = Upd(pc, r, "done") /\ result' = Upd(result, r, "invalid")
    ELSE /\ pc' = Upd(pc, r, IF NeedsConfirm(lim) THEN "confirm" ELSE "prepare")
         /\ result' = result

(***************************************************************************)
(* ChannelPurger(channel, before=b, after=a); the history iterator starts  *)
(* at the bound it moves away from.  _make_purger: an argument wins over a *)
(* flag, and before defaults to ctx.message.                               *)
(***************************************************************************)
ChannelPurger(r, b, a) ==
    /\ before' = Upd(before, r, b)
    /\ after' = Upd(after, r, a)
    /\ cursor' = Upd(cursor, r, IF a # None THEN a
                                ELSE IF b # None THEN b ELSE InvocationId(r) - 1)

Or(x, y) == IF x # None THEN x ELSE y

make_purger(r, flag_before, flag_after, b, a) ==
    ChannelPurger(r, Or(Or(b, flag_before), InvocationId(r)), Or(a, flag_after))

validate_and_purge_in(r, lims) ==
    \E lim \in lims, inter \in BOOLEAN :
        /\ Invoked(r, lim, inter)
        /\ Validate(r, lim)
        /\ make_purger(r, None, None, None, None)
        /\ pattern' = pattern

validate_and_purge(r) == validate_and_purge_in(r, Limits)

(***************************************************************************)
(* ctx.prompt returns: True, False, or None on a timeout.                  *)
(***************************************************************************)
prompt(r) ==
    /\ pc[r] = "confirm"
    /\ \E ans \in ConfirmAnswers :
        /\ calls' = Upd(calls, r, Append(calls[r], Call("confirm", "prompt", <<>>, ans)))
        /\ IF Confirmed(ans)
           THEN pc' = Upd(pc, r, "prepare") /\ result' = result
           ELSE pc' = Upd(pc, r, "done") /\ result' = Upd(result, r, "cancelled")
    /\ UNCHANGED <<before, after, pattern, report, channel, now, gone, external, runnable, limit, interaction, bulk_cutoff,
                   examined, cursor, messages, bulk_msgs, old_msgs, i, j, k, deleted>>

(***************************************************************************)
(* _prepare: defer the interaction, or delete the invoking message and     *)
(* swallow an HTTPException; then purge() starts and computes bulk_cutoff. *)
(***************************************************************************)
prepare(r) ==
    /\ pc[r] = "prepare"
    /\ \E res \in IF interaction[r] THEN {"defer"} ELSE DeleteOutcomes(InvocationId(r)) :
        /\ calls' = Upd(calls, r, Append(calls[r], Call("prepare", "prepare", <<>>, res)))
        /\ gone' = IF res = "ok" THEN gone \cup {InvocationId(r)} ELSE gone
    /\ bulk_cutoff' = Upd(bulk_cutoff, r, now - BULK_DELETE_LIMIT)
    /\ pc' = Upd(pc, r, "scan")
    /\ UNCHANGED <<before, after, pattern, report, channel, now, external, runnable, limit, interaction, examined, cursor,
                   messages, bulk_msgs, old_msgs, i, j, k, deleted, result>>

(***************************************************************************)
(* purge(), after the scan loop: return on no match, else partition by age *)
(* and enter _bulk_delete, then the loop over old_msgs.                    *)
(***************************************************************************)
AfterBulk(r, old) == IF old = <<>> THEN "report" ELSE "old"

AfterScan(r, msgs) ==
    /\ messages' = Upd(messages, r, msgs)
    /\ IF msgs = <<>>
       THEN /\ pc' = Upd(pc, r, "report")
            /\ UNCHANGED <<bulk_msgs, old_msgs>>
       ELSE LET bulk == BulkOf(msgs, bulk_cutoff[r])
                old == OldOf(msgs, bulk_cutoff[r])
            IN /\ bulk_msgs' = Upd(bulk_msgs, r, bulk)
               /\ old_msgs' = Upd(old_msgs, r, old)
               /\ pc' = Upd(pc, r, IF bulk # <<>> THEN "bulk" ELSE AfterBulk(r, old))
    /\ i' = Upd(i, r, 0)
    /\ k' = Upd(k, r, 1)

(***************************************************************************)
(* The history iterator yields a message: check it, collect it, break at   *)
(* limit matches.                                                          *)
(***************************************************************************)
scan_item(r) ==
    /\ pc[r] = "scan"
    /\ HasNext(r)
    /\ LET m == NextItem(r, cursor[r])
           msgs == Collect(messages[r], m)
       IN /\ examined' = Upd(examined, r, examined[r] + 1)
          /\ cursor' = Upd(cursor, r, m)
          /\ IF msgs # messages[r] /\ LimitReached(msgs, limit[r])
             THEN AfterScan(r, msgs)
             ELSE /\ messages' = Upd(messages, r, msgs)
                  /\ UNCHANGED <<pc, bulk_msgs, old_msgs, i, k>>
    /\ UNCHANGED <<before, after, pattern, report, channel, now, gone, external, runnable, limit, interaction, bulk_cutoff,
                   j, deleted, calls, result>>

(***************************************************************************)
(* The history iterator is exhausted (the channel or the scan ceiling).    *)
(***************************************************************************)
scan_end(r) ==
    /\ pc[r] = "scan"
    /\ ~HasNext(r)
    /\ AfterScan(r, messages[r])
    /\ UNCHANGED <<before, after, pattern, report, channel, now, gone, external, runnable, limit, interaction, bulk_cutoff,
                   examined, cursor, j, deleted, calls, result>>

(***************************************************************************)
(* A history read raises: the exception leaves purge and the command.      *)
(***************************************************************************)
HistoryRaise_Swallowed(r) ==
    /\ result' = Upd(result, r, "error")
    /\ AfterScan(r, messages[r])

HistoryRaise(r) ==
    /\ result' = Upd(result, r, "error")
    /\ pc' = Upd(pc, r, "raised")
    /\ UNCHANGED <<messages, bulk_msgs, old_msgs, i, k>>

history_error(r) ==
    /\ pc[r] = "scan"
    /\ examined[r] < scan_limit(limit[r])
    /\ HistoryRaise(r)
    /\ UNCHANGED <<before, after, pattern, report, channel, now, gone, external, runnable, limit, interaction, bulk_cutoff,
                   examined, cursor, j, deleted, calls>>

(***************************************************************************)
(* _bulk_delete moves to the next chunk, or returns to purge().            *)
(***************************************************************************)
NextChunk_SameWay(r) ==
    /\ i' = Upd(i, r, i[r] + CHUNK_SIZE)
    /\ pc' = Upd(pc, r, IF i[r] + CHUNK_SIZE < Len(bulk_msgs[r])
                        THEN pc[r] ELSE AfterBulk(r, old_msgs[r]))

NextChunk(r) ==
    /\ i' = Upd(i, r, i[r] + CHUNK_SIZE)
    /\ pc' = Upd(pc, r, IF i[r] + CHUNK_SIZE < Len(bulk_msgs[r])
                        THEN "bulk" ELSE AfterBulk(r, old_msgs[r]))

(***************************************************************************)
(* _bulk_delete, one chunk: delete() for a chunk of one, delete_messages() *)
(* otherwise; extend deleted on success, enter the fallback loop on any    *)
(* HTTPException (NotFound is one).                                        *)
(***************************************************************************)
Extend_Assign(dl, chunk) == chunk

Extend(dl, chunk) == dl \o chunk

bulk_delete(r) ==
    /\ pc[r] = "bulk"
    /\ LET chunk == Chunk(bulk_msgs[r], i[r])
       IN \E res \in IF UseSingle(chunk) THEN DeleteOutcomes(chunk[1]) ELSE BatchOutcomes(chunk) :
            /\ calls' = Upd(calls, r, Append(calls[r],
                   Call(IF UseSingle(chunk) THEN "delete" ELSE "batch", "chunk", chunk, res)))
            /\ IF res = "ok"
               THEN /\ gone' = gone \cup Items(chunk)
                    /\ deleted' = Upd(deleted, r, Extend(deleted[r], chunk))
                    /\ NextChunk(r)
                    /\ j' = j
               ELSE /\ pc' = Upd(pc, r, "fallback")
                    /\ j' = Upd(j, r, 1)
                    /\ UNCHANGED <<gone, deleted, i>>
    /\ UNCHANGED <<before, after, pattern, report, channel, now, external, runnable, limit, interaction, bulk_cutoff,
                   examined, cursor, messages, bulk_msgs, old_msgs, k, result>>

(***************************************************************************)
(* _delete_single(msg) with the platform's answer res: append msg unless   *)
(* the answer is an HTTPException other than NotFound.                     *)
(***************************************************************************)
Appends_Always(res) == TRUE

Appends_OkOnly(res) == res = "ok"

Appends(res) == res # "hard"

delete_single(r, site, msg, res) ==
    /\ calls' = Upd(calls, r, Append(calls[r], Call("delete", site, <<msg>>, res)))
    /\ gone' = IF res = "ok" THEN gone \cup {msg} ELSE gone
    /\ deleted' = IF Appends(res) THEN Upd(deleted, r, Append(deleted[r], msg))
                  ELSE deleted

(***************************************************************************)
(* _bulk_delete, "return" in the fallback loop: no further chunk.          *)
(***************************************************************************)
FallbackBreak(r) ==
    /\ NextChunk(r)
    /\ j' = j

FallbackReturn_Purge(r) ==
    /\ pc' = Upd(pc, r, "report")
    /\ UNCHANGED <<i, j>>

FallbackReturn_Raise(r) ==
    /\ pc' = Upd(pc, r, "raised")
    /\ UNCHANGED <<i, j>>

FallbackReturn(r) ==
    /\ pc' = Upd(pc, r, AfterBulk(r, old_msgs[r]))
    /\ UNCHANGED <<i, j>>

(***************************************************************************)
(* _bulk_delete, the fallback loop over the chunk whose call failed.       *)
(***************************************************************************)
bulk_delete_fallback(r) ==
    /\ pc[r] = "fallback"
    /\ LET chunk == Chunk(bulk_msgs[r], i[r])
       IN \E res \in DeleteOutcomes(chunk[j[r]]) :
            /\ delete_single(r, "fallback", chunk[j[r]], res)
            /\ IF ~Appends(res)
               THEN FallbackReturn(r)
               ELSE IF j[r] < Len(chunk)
               THEN /\ j' = Upd(j, r, j[r] + 1)
                    /\ UNCHANGED <<pc, i>>
               ELSE /\ NextChunk(r)
                    /\ j' = j
    /\ UNCHANGED <<before, after, pattern, report, channel, now, external, runnable, limit, interaction, bulk_cutoff,
                   examined, cursor, messages, bulk_msgs, old_msgs, k, result>>

(***************************************************************************)
(* purge(), the loop over old_msgs.                                        *)
(***************************************************************************)
OldLoopContinues_NoBreak(res, at, n) == at < n

OldLoopContinues(res, at, n) == Appends(res) /\ at < n

purge_old(r) ==
    /\ pc[r] = "old"
    /\ \E res \in DeleteOutcomes(old_msgs[r][k[r]]) :
        /\ delete_single(r, "old", old_msgs[r][k[r]], res)
        /\ IF OldLoopContinues(res, k[r], Len(old_msgs[r]))
           THEN k' = Upd(k, r, k[r] + 1) /\ pc' = pc
           ELSE k' = k /\ pc' = Upd(pc, r, "report")
    /\ UNCHANGED <<before, after, pattern, report, channel, now, external, runnable, limit, interaction, bulk_cutoff,
                   examined, cursor, messages, bulk_msgs, old_msgs, i, j, result>>

(***************************************************************************)
(* purge returns self.deleted; _send_result answers "no messages found"    *)
(* for an empty list, else the summary.                                    *)
(***************************************************************************)
Returned_Matched(r) == messages[r]

Returned(r) == deleted[r]

send_result(r) ==
    /\ pc[r] = "report"
    /\ result' = Upd(result, r, ResultKind(Len(Returned(r))))
    /\ report' = Upd(report, r, IF ResultKind(Len(Returned(r))) = "nothing"
                                THEN NoEmbed ELSE Embed(Returned(r)))
    /\ pc' = Upd(pc, r, "done")
    /\ UNCHANGED <<before, after, pattern, channel, now, gone, external, runnable, limit,
                   interaction, bulk_cutoff, examined, cursor, messages, bulk_msgs,
                   old_msgs, i, j, k, deleted, calls>>

(***************************************************************************)
(* Another actor deletes a message the run has collected, between the     *)
(* run's scan and its own delete of it (a message deleted before it is     *)
(* scanned is a different channel; one deleted while the scan goes on is   *)
(* not looked at again before the scan is over).                           *)
(***************************************************************************)
ExternalDelete(r) ==
    /\ pc[r] \in {"bulk", "fallback", "old"}
    /\ external < MaxExternal
    /\ \E n \in 1..Min(MaxItems, Len(messages[r])) :
        /\ messages[r][n] \notin gone
        /\ gone' = gone \cup {messages[r][n]}
    /\ external' = external + 1
    /\ UNCHANGED <<before, after, pattern, report, channel, now, runnable, pc, limit, interaction, bulk_cutoff,
                   examined, cursor, messages, bulk_msgs, old_msgs, i, j, k,
                   deleted, calls, result>>

Next ==
    \E r \in RunIds :
        \/ validate_and_purge(r)
        \/ prompt(r)
        \/ prepare(r)
        \/ scan_item(r)
        \/ scan_end(r)
        \/ history_error(r)
        \/ bulk_delete(r)
        \/ bulk_delete_fallback(r)
        \/ purge_old(r)
        \/ send_result(r)
        \/ ExternalDelete(r)

Spec == Init /\ [][Next]_vars

(***************************************************************************)
(* The steps of run r once it is invoked.  Every awaited call returns, so  *)
(* a run that can take a step takes one: weak fairness of its steps.       *)
(* Nothing is assumed of the other actors.                                 *)
(***************************************************************************)
RunStep_OldDeleteHangs(r) ==
    prompt(r) \/ prepare(r) \/ scan_item(r) \/ scan_end(r) \/ history_error(r)
        \/ bulk_delete(r) \/ bulk_delete_fallback(r) \/ send_result(r)

RunStep(r) ==
    \/ prompt(r)
    \/ prepare(r)
    \/ scan_item(r)
    \/ scan_end(r)
    \/ history_error(r)
    \/ bulk_delete(r)
    \/ bulk_delete_fallback(r)
    \/ purge_old(r)
    \/ send_result(r)

LiveChannels ==
    {ch \in SmallChannels : Len(ch) <= MaxLive}
        \cup {<<Seg(6, Skip)>>, <<Seg(4, Skip), Seg(2, Young)>>, <<Seg(11, Old)>>}

InitLive == Init /\ channel \in LiveChannels

FairSpec == InitLive /\ [][Next]_vars /\ \A r \in RunIds : WF_vars(RunStep(r))

(***************************************************************************)
(* _send_result on its own: a slash-command run with limit 100 whose purge *)
(* has just returned, having collected and deleted every message of a      *)
(* channel of the report inputs in one chunk call; the step is the report. *)
(***************************************************************************)
On1(v, w) == [r \in RunIds |-> IF r = 1 THEN v ELSE w]

InitReport ==
    /\ channel \in ReportChannels \cup WideReportChannels
    /\ now = Now0
    /\ gone = 1..ChannelLen(channel)
    /\ external = 0
    /\ runnable = {1}
    /\ LET n == ChannelLen(channel)
           all == [m \in 1..n |-> m]
       IN /\ pc = On1("report", "idle")
          /\ limit = On1(CONFIRM_THRESHOLD, 0)
          /\ interaction = On1(TRUE, FALSE)
          /\ bulk_cutoff = On1(Now0 - BULK_DELETE_LIMIT, 0)
          /\ examined = On1(n, 0)
          /\ cursor = On1(n, 0)
          /\ before = On1(InvocationId(1), None)
          /\ after = On1(None, None)
          /\ messages = On1(all, <<>>)
          /\ bulk_msgs = On1(all, <<>>)
          /\ old_msgs = On1(<<>>, <<>>)
          /\ i = On1(IF n = 0 THEN 0 ELSE CHUNK_SIZE, 0)
          /\ j = On1(0, 0)
          /\ k = On1(1, 0)
          /\ deleted = On1(all, <<>>)
          /\ calls = On1(<<Call("prepare", "prepare", <<>>, "defer")>> \o
                         (IF n = 0 THEN <<>>
                          ELSE <<Call(IF n = 1 THEN "delete" ELSE "batch",
                                      "chunk", all, "ok")>>),
                         <<>>)
    /\ pattern = [r \in RunIds |-> NoPattern]
    /\ result = [r \in RunIds |-> "none"]
    /\ report = [r \in RunIds |-> NoEmbed]

NextReport == \E r \in RunIds : send_result(r)

SpecReport == InitReport /\ [][NextReport]_vars

(***************************************************************************)
(* The other purge commands, on channels of up to MaxCmd messages.  A      *)
(* message argument is a message of the channel; a flag is None, a message *)
(* of the channel, or an id later than the command's own.                  *)
(***************************************************************************)
CmdChannels == {ch \in SmallChannels : Len(ch) <= MaxCmd}

CmdLimits == {0, 1, CONFIRM_THRESHOLD + 1}

Positions == 1..ChannelLen(channel)

FlagIds(r) == {None, InvocationId(r) - 1} \cup Positions

Patterns == {[text |-> "(", compiles |-> FALSE], [text |-> "a+", compiles |-> TRUE]}

re_error_Never(p) == FALSE

re_error(p) == ~p.compiles

(***************************************************************************)
(* A command with PurgeFlags and no other bound (pins, and the like).      *)
(***************************************************************************)
pins(r) ==
    \E lim \in CmdLimits, inter \in BOOLEAN, fb \in FlagIds(r), fa \in {None} \cup Positions :
        /\ Invoked(r, lim, inter)
        /\ Validate(r, lim)
        /\ make_purger(r, fb, fa, None, None)
        /\ pattern' = pattern

(***************************************************************************)
(* purge after <message>: prompt, _prepare, ChannelPurger(after=message),  *)
(* purge(2000).                                                            *)
(***************************************************************************)
purge_after(r) ==
    \E m \in Positions :
        /\ Invoked(r, AFTER_LIMIT, FALSE)
        /\ pc' = Upd(pc, r, "confirm")
        /\ result' = result
        /\ ChannelPurger(r, None, m)
        /\ pattern' = pattern

(***************************************************************************)
(* purge before <message> [limit].                                         *)
(***************************************************************************)
purge_before(r) ==
    \E m \in Positions, lim \in CmdLimits :
        /\ Invoked(r, lim, FALSE)
        /\ Validate(r, lim)
        /\ make_purger(r, None, None, m, None)
        /\ pattern' = pattern

(***************************************************************************)
(* purge between <start> <end>: the two are swapped when start is the      *)
(* later one (created_at is the time in the message's id, so the later     *)
(* message is the one at the smaller position).                            *)
(***************************************************************************)
between(r) ==
    \E s \in Positions, e \in Positions :
        LET swap == s < e
            start == IF swap THEN e ELSE s
            end == IF swap THEN s ELSE e
        IN /\ Invoked(r, AFTER_LIMIT, FALSE)
           /\ pc' = Upd(pc, r, "confirm")
           /\ result' = result
           /\ ChannelPurger(r, end, start)
           /\ pattern' = pattern

(***************************************************************************)
(* purge regex (here without before or after flags): re.compile first; on  *)
(* re.error reply and return.                                              *)
(***************************************************************************)
regex(r) ==
    \E p \in Patterns, lim \in CmdLimits, inter \in BOOLEAN :
        /\ Invoked(r, lim, inter)
        /\ pattern' = Upd(pattern, r, p)
        /\ IF re_error(p)
           THEN /\ pc' = Upd(pc, r, "done")
                /\ result' = Upd(result, r, "badregex")
                /\ UNCHANGED <<before, after, cursor>>
           ELSE /\ Validate(r, lim)
                /\ make_purger(r, None, None, None, None)

NextCmd ==
    \E r \in RunIds :
        \/ pins(r)
        \/ purge_after(r)
        \/ purge_before(r)
        \/ between(r)
        \/ regex(r)
        \/ prompt(r)
        \/ prepare(r)
        \/ scan_item(r)
        \/ scan_end(r)
        \/ history_error(r)
        \/ bulk_delete(r)
        \/ bulk_delete_fallback(r)
        \/ purge_old(r)
        \/ send_result(r)
        \/ ExternalDelete(r)

InitCmd == Init /\ channel \in CmdChannels

SpecCmd == InitCmd /\ [][NextCmd]_vars

(***************************************************************************)
(* Two overlapping invocations on one channel, with limits below the       *)
(* confirmation threshold.                                                 *)
(***************************************************************************)
TwoLimits == {1, 2}

TwoChannels ==
    { <<Seg(1, Young)>>,
      <<Seg(1, Old)>>,
      <<Seg(2, Young)>>,
      <<Seg(1, Young), Seg(1, Old)>> }

InitTwo == InitWith(TwoChannels, RunIds)

NextTwo ==
    \E r \in RunIds :
        \/ validate_and_purge_in(r, TwoLimits)
        \/ prepare(r)
        \/ scan_item(r)
        \/ scan_end(r)
        \/ history_error(r)
        \/ bulk_delete(r)
        \/ bulk_delete_fallback(r)
        \/ purge_old(r)
        \/ send_result(r)
        \/ ExternalDelete(r)

SpecTwo == InitTwo /\ [][NextTwo]_vars

(***************************************************************************)
(* The emoji command's predicate.  A body is a sequence of characters,     *)
(* each standing for a class of characters the two patterns tell apart:    *)
(* "<", ":", ">", the letter "a", "w" another word character, "d" a digit, *)
(* "E" a character of the emoji ranges, "J" the joiner or a variation      *)
(* selector, "S" whitespace, "x" any other character.                      *)
(***************************************************************************)
WordChars_Letters == {"a", "w"}

WordChars == {"a", "w", "d"}

Digits == {"d"}

Whitespace == {"S"}

UnicodeClass == {"E", "J", "S"}

RECURSIVE RunEnd(_, _, _)
RunEnd(s, p, class) ==
    IF p <= Len(s) /\ s[p] \in class THEN RunEnd(s, p + 1, class) ELSE p

Is(s, p, c) == p <= Len(s) /\ s[p] = c

(***************************************************************************)
(* custom_re = <a?:\w+:\d+> tried at position p: the position of the       *)
(* closing ">" or 0.  \w+ and \d+ take the longest run: a shorter one is   *)
(* followed by a character of the run, never by the ":" or ">" needed.     *)
(***************************************************************************)
NameStart(s, p) ==
    IF Is(s, p + 1, "a") /\ Is(s, p + 2, ":") THEN p + 3
    ELSE IF Is(s, p + 1, ":") THEN p + 2
    ELSE 0

custom_match(s, p) ==
    IF ~Is(s, p, "<") \/ NameStart(s, p) = 0 THEN 0
    ELSE LET n == NameStart(s, p)
             ne == RunEnd(s, n, WordChars)
             de == RunEnd(s, ne + 1, Digits)
         IN IF ne > n /\ Is(s, ne, ":") /\ de > ne + 1 /\ Is(s, de, ">")
            THEN de ELSE 0

RECURSIVE custom_sub(_, _)
custom_sub(s, p) ==
    IF p > Len(s) THEN <<>>
    ELSE IF custom_match(s, p) # 0 THEN custom_sub(s, custom_match(s, p) + 1)
    ELSE <<s[p]>> \o custom_sub(s, p + 1)

unicode_sub(s) ==
    LET keep(c) == c \notin UnicodeClass IN SelectSeq(s, keep)

RECURSIVE lstrip(_)
lstrip(s) == IF s # <<>> /\ Head(s) \in Whitespace THEN lstrip(Tail(s)) ELSE s

RECURSIVE rstrip(_)
rstrip(s) ==
    IF s # <<>> /\ s[Len(s)] \in Whitespace THEN rstrip(SubSeq(s, 1, Len(s) - 1)) ELSE s

strip(s) == rstrip(lstrip(s))

emoji_check(body) ==
    IF strip(body) = <<>> THEN FALSE
    ELSE strip(unicode_sub(custom_sub(strip(body), 1))) = <<>>

(***************************************************************************)
(* The bodies tried: up to MaxBody pieces, a piece being one character, a  *)
(* custom emoji, an animated one, or the opening or closing part of one    *)
(* (so that removing an emoji can leave the text of another).              *)
(***************************************************************************)
Pieces ==
    { <<c>> : c \in {"<", ":", ">", "a", "w", "d", "E", "J", "S", "x"} }
        \cup { <<"<", ":", "w", ":", "d", ">">>,
               <<"<", "a", ":", "a", "d", ":", "d", "d", ">">>,
               <<"<", ":", "w">>,
               <<":", "d", ">">> }

RECURSIVE Flat(_)
Flat(ps) == IF ps = <<>> THEN <<>> ELSE Head(ps) \o Flat(Tail(ps))

Bodies ==
    { Flat(ps) : ps \in UNION {[1..n -> Pieces] : n \in 0..MaxBody} }
        \cup { <<"<", ":", "w">> \o <<"<", ":", "w", ":", "d", ">">> \o <<":", "d", ">">>,
               <<"E", "J", "E">> \o <<"<", ":", "w", ":", "d", ">">> \o <<"S", "E">> }

Said(body) == [age |-> 5, match |-> emoji_check(body), author |-> 1, content |-> body]

EmojiChannels == { <<Seg(1, Said(body))>> : body \in Bodies }

InitEmoji == InitWith(EmojiChannels, {1})

emoji(r) == validate_and_purge_in(r, {1})

NextEmoji ==
    \E r \in RunIds :
        \/ emoji(r)
        \/ prepare(r)
        \/ scan_item(r)
        \/ scan_end(r)
        \/ history_error(r)
        \/ bulk_delete(r)
        \/ bulk_delete_fallback(r)
        \/ send_result(r)

SpecEmoji == InitEmoji /\ [][NextEmoji]_vars

(***************************************************************************)
(* Time passes while a run is suspended at an await: up to MaxTick days,   *)
(* on channels with messages one day short of BULK_DELETE_LIMIT.           *)
(***************************************************************************)
Recent == [age |-> BULK_DELETE_LIMIT - 1, match |-> TRUE, author |-> 2]

TimeChannels ==
    { <<Seg(1, Recent)>>,
      <<Seg(2, Recent)>>,
      <<Seg(1, Young), Seg(1, Recent)>>,
      <<Seg(2, Recent), Seg(1, Old)>>,
      <<Seg(1, Skip), Seg(2, Recent)>> }

Tick ==
    /\ now < Now0 + MaxTick
    /\ now' = now + 1
    /\ UNCHANGED <<channel, gone, external, runnable, pc, limit, interaction, bulk_cutoff,
                   examined, cursor, before, after, pattern, messages, bulk_msgs,
                   old_msgs, i, j, k, deleted, calls, result, report>>

InitTime == InitWith(TimeChannels, {1})

NextTime ==
    \/ Tick
    \/ \E r \in RunIds :
        \/ validate_and_purge_in(r, {2, CONFIRM_THRESHOLD})
        \/ prepare(r)
        \/ scan_item(r)
        \/ scan_end(r)
        \/ history_error(r)
        \/ bulk_delete(r)
        \/ bulk_delete_fallback(r)
        \/ purge_old(r)
        \/ send_result(r)

SpecTime == InitTime /\ [][NextTime]_vars

(***************************************************************************)
(* What the claims speak of, read off the calls a run has issued.          *)
(***************************************************************************)
Last(s) == s[Len(s)]

IsDeletion(c) == c.op \in {"delete", "batch"}

Started(r) == pc[r] # "idle"

ScanOver(r) == pc[r] \in {"bulk", "fallback", "old", "report", "done"}

Finished(r) == pc[r] = "done"

NoPurgeActivity(r) ==
    /\ calls[r] = <<>>
    /\ examined[r] = 0
    /\ messages[r] = <<>>
    /\ deleted[r] = <<>>

(* C1: a run whose limit is below 1 or above 2000 has ended as invalid and
   has invoked no confirm, no prepare, no history read and no delete or
   batch-delete call. *)
C1_InvalidLimitRejected ==
    \A r \in RunIds :
        Started(r) /\ (limit[r] < 1 \/ limit[r] > 2000) =>
            /\ pc[r] = "done"
            /\ result[r] = "invalid"
            /\ NoPurgeActivity(r)

C1_Witness ==
    \E r \in RunIds : pc[r] = "done" /\ limit[r] = 2001 /\ result[r] = "invalid"

(* C2: a run whose confirmation was answered by a decline or a timeout has
   ended as cancelled, and has issued no prepare, no history read and no
   delete or batch-delete call. *)
C2_DeclineOrTimeoutCancels ==
    \A r \in RunIds :
        (\E n \in 1..Len(calls[r]) :
            calls[r][n].op = "confirm" /\ calls[r][n].res \in {"no", "timeout"}) =>
            /\ pc[r] = "done"
            /\ result[r] = "cancelled"
            /\ \A n \in 1..Len(calls[r]) : calls[r][n].op = "confirm"
            /\ examined[r] = 0
            /\ messages[r] = <<>>
            /\ deleted[r] = <<>>

C2_Witness ==
    \E r \in RunIds :
        /\ result[r] = "cancelled"
        /\ Last(calls[r]).res = "timeout"

(* C3: for a valid limit, confirm is invoked if and only if limit > 100;
   a run with limit = 100 prepares and scans without any confirmation. *)
ConfirmInvoked(r) ==
    \/ pc[r] = "confirm"
    \/ \E n \in 1..Len(calls[r]) : calls[r][n].op = "confirm"

PrepareInvoked(r) ==
    \/ pc[r] = "prepare"
    \/ \E n \in 1..Len(calls[r]) : calls[r][n].op = "prepare"

C3_ConfirmIffAboveThreshold ==
    \A r \in RunIds :
        Started(r) /\ limit[r] >= 1 /\ limit[r] <= 2000 =>
            /\ ConfirmInvoked(r) <=> limit[r] > 100
            /\ limit[r] <= 100 => PrepareInvoked(r)

C3_Witness ==
    \E r \in RunIds :
        /\ limit[r] = 100
        /\ pc[r] = "scan"
        /\ examined[r] > 0
        /\ ~ConfirmInvoked(r)

(* C4: the scan examines at most min(limit * 5, 5000) raw items, collects
   at most limit items, and once the limit-th match is collected the scan
   is over and that match is the last raw item it examined. *)
C4_ScanBounded ==
    \A r \in RunIds :
        Started(r) /\ limit[r] >= 1 /\ limit[r] <= 2000 =>
            /\ examined[r] <= limit[r] * 5
            /\ examined[r] <= 5000
            /\ Len(messages[r]) <= limit[r]
            /\ Len(messages[r]) = limit[r] =>
                   /\ pc[r] # "scan"
                   /\ cursor[r] = Last(messages[r])

C4_Witness ==
    \E r \in RunIds :
        /\ limit[r] = 2000
        /\ examined[r] = 5000
        /\ ScanOver(r)
        /\ Len(messages[r]) = 1

C4_WitnessBreak ==
    \E r \in RunIds :
        /\ limit[r] = 2
        /\ Len(messages[r]) = 2
        /\ examined[r] < ChannelLen(channel)
        /\ Finished(r)

(* C5: when the scan is over and no message it examined satisfies the
   predicate, purge() has returned (the run is at its report or past it),
   the outcome is empty and no delete or batch-delete call is issued. *)
RECURSIVE NoMatchUpTo(_, _)
NoMatchUpTo(ch, c) ==
    IF ch = <<>> \/ c <= 0 THEN TRUE
    ELSE ~Head(ch).kind.match /\ NoMatchUpTo(Tail(ch), c - Head(ch).n)

C5_NoMatchNoCalls ==
    \A r \in RunIds :
        ScanOver(r) /\ NoMatchUpTo(channel, cursor[r]) =>
            /\ pc[r] \in {"report", "done"}
            /\ messages[r] = <<>>
            /\ deleted[r] = <<>>
            /\ \A n \in 1..Len(calls[r]) : ~IsDeletion(calls[r][n])

C5_Witness ==
    \E r \in RunIds :
        /\ Finished(r)
        /\ result[r] = "nothing"
        /\ examined[r] = 5
        /\ NoMatchUpTo(channel, cursor[r])

(* C6: when the scan is over and purge() has partitioned the collected
   messages (no deletion call issued yet), bulk_msgs is exactly the collected
   messages created strictly after the cutoff and old_msgs exactly those
   created at or before it, both in scan order: every collected message is
   in exactly one of them, a message created at the cutoff in old_msgs.
   Afterwards no call of the bulk path (_bulk_delete's chunk call or its
   fallback) targets a message created at or before the cutoff; the last
   call stands for every call, each was the last one when it was issued. *)
Partitioned(r) ==
    /\ pc[r] \in {"bulk", "old"}
    /\ ~IsDeletion(Last(calls[r]))

C6_AgePartition ==
    \A r \in RunIds :
        LET afterCutoff(m) == created_at(m) > bulk_cutoff[r]
            atOrBefore(m) == created_at(m) <= bulk_cutoff[r]
        IN /\ Partitioned(r) =>
               /\ bulk_msgs[r] = SelectSeq(messages[r], afterCutoff)
               /\ old_msgs[r] = SelectSeq(messages[r], atOrBefore)
               /\ \A m \in Items(messages[r]) : afterCutoff(m) # atOrBefore(m)
           /\ ScanOver(r) /\ messages[r] # <<>> =>
               /\ Len(bulk_msgs[r]) + Len(old_msgs[r]) = Len(messages[r])
               /\ Last(calls[r]).site \in {"chunk", "fallback"} =>
                      \A n \in 1..Len(Last(calls[r]).items) :
                          afterCutoff(Last(calls[r]).items[n])

C6_Witness ==
    \E r \in RunIds :
        /\ Finished(r)
        /\ bulk_msgs[r] # <<>>
        /\ old_msgs[r] # <<>>
        /\ created_at(Last(old_msgs[r])) = bulk_cutoff[r]
        /\ Last(calls[r]) = Call("delete", "old", <<Last(old_msgs[r])>>, "ok")

(* C7: every call _bulk_delete issues for a chunk is either a batch-delete
   call carrying between 2 and 100 items or a single-item delete call
   carrying exactly 1; and when the last chunk of bulk_msgs has exactly one
   item and _bulk_delete has come to it, that item has been given a
   single-item delete call. *)
C7_BatchSize ==
    \A r \in RunIds :
        /\ calls[r] # <<>> /\ Last(calls[r]).op = "batch" =>
               /\ Len(Last(calls[r]).items) >= 2
               /\ Len(Last(calls[r]).items) <= 100
        /\ calls[r] # <<>> /\ Last(calls[r]).site = "chunk" =>
               (Last(calls[r]).op = "delete" <=> Len(Last(calls[r]).items) = 1)
        /\ ( /\ ScanOver(r)
             /\ pc[r] # "bulk"
             /\ Len(bulk_msgs[r]) % 100 = 1
             /\ i[r] >= Len(bulk_msgs[r]) - 1 ) =>
               \E n \in 1..Len(calls[r]) :
                   /\ calls[r][n].op = "delete"
                   /\ calls[r][n].site = "chunk"
                   /\ calls[r][n].items = <<Last(bulk_msgs[r])>>

C7_Witness ==
    \E r \in RunIds :
        /\ Len(bulk_msgs[r]) = 101
        /\ Len(calls[r]) >= 2
        /\ calls[r][Len(calls[r]) - 1].op = "batch"
        /\ Len(calls[r][Len(calls[r]) - 1].items) = 100
        /\ Last(calls[r]) = Call("delete", "chunk", <<bulk_msgs[r][101]>>, "ok")

(* C8, as claimed: in a finished run, after a failed batch-delete call every
   item of its chunk has been given an individual delete call, in the
   chunk's order. *)
FailedBatches(r) ==
    {n \in 1..Len(calls[r]) : calls[r][n].op = "batch" /\ calls[r][n].res = "hard"}

Attempted(r, n, q) ==
    /\ n + q <= Len(calls[r])
    /\ calls[r][n + q].op = "delete"
    /\ calls[r][n + q].site = "fallback"
    /\ calls[r][n + q].items = <<calls[r][n].items[q]>>

C8_Original ==
    \A r \in RunIds :
        Finished(r) =>
            \A n \in FailedBatches(r) :
                \A q \in 1..Len(calls[r][n].items) : Attempted(r, n, q)

(* C8, amended: in a finished run, after a failed batch-delete call the
   items of its chunk have been given individual delete calls one after the
   other in the chunk's order, up to and including the first whose delete
   ended in a hard failure; the items after that one have been given none. *)
C8_FallbackInOrderUntilHard ==
    \A r \in RunIds :
        Finished(r) =>
            \A n \in FailedBatches(r) :
                \A q \in 1..Len(calls[r][n].items) :
                    Attempted(r, n, q) <=>
                        \/ q = 1
                        \/ Attempted(r, n, q - 1) /\ calls[r][n + q - 1].res # "hard"

C8_Witness ==
    \E r \in RunIds :
        /\ Finished(r)
        /\ \E n \in FailedBatches(r) :
            /\ Len(calls[r][n].items) >= 3
            /\ Len(calls[r]) = n + 2
            /\ calls[r][n + 1].res = "notfound"
            /\ calls[r][n + 2].res = "hard"

(* C9: in a finished run, once an individual delete of a fallback has ended
   in a hard failure, every later call of the run is a delete of the old
   partition: no chunk call and no fallback delete follows. *)
C9_HardFallbackStopsChunks ==
    \A r \in RunIds :
        Finished(r) =>
            \A h \in 1..Len(calls[r]) :
                calls[r][h].site = "fallback" /\ calls[r][h].res = "hard" =>
                    \A n \in (h + 1)..Len(calls[r]) : calls[r][n].site = "old"

C9_Witness ==
    \E r \in RunIds :
        /\ Finished(r)
        /\ Len(bulk_msgs[r]) > 100
        /\ i[r] = 0
        /\ Last(calls[r]).site = "fallback"
        /\ Last(calls[r]).res = "hard"
        /\ \E n \in 1..Len(calls[r]) : calls[r][n].res = "notfound"

(* C10: in a finished run whose collected messages are all created after
   the cutoff and whose delete and batch-delete calls all succeeded, there
   are exactly ceil(n / 100) such calls, the q-th of them carries the
   messages 100 (q - 1) + 1 .. min(100 q, n) of the scan, and the outcome is
   the collected sequence. *)
DeletionCalls(r) == SelectSeq(calls[r], IsDeletion)

C10_AllBulkAllOk ==
    \A r \in RunIds :
        ( /\ Finished(r)
          /\ messages[r] # <<>>
          /\ \A n \in 1..Len(calls[r]) :
                 IsDeletion(calls[r][n]) => calls[r][n].res = "ok"
          /\ \A n \in 1..Len(messages[r]) :
                 created_at(messages[r][n]) > bulk_cutoff[r] ) =>
            LET d == DeletionCalls(r)
                n == Len(messages[r])
            IN /\ Len(d) = (n + 99) \div 100
               /\ \A q \in 1..Len(d) :
                      d[q].items = SubSeq(messages[r], 100 * (q - 1) + 1, Min(100 * q, n))
               /\ deleted[r] = messages[r]

C10_Witness ==
    \E r \in RunIds :
        /\ Finished(r)
        /\ Len(messages[r]) = 150
        /\ deleted[r] = messages[r]
        /\ Len(calls[r]) >= 2
        /\ calls[r][Len(calls[r]) - 1].op = "batch"
        /\ Len(calls[r][Len(calls[r]) - 1].items) = 100
        /\ Last(calls[r]).op = "batch"
        /\ Len(Last(calls[r]).items) = 50
        /\ Last(calls[r]).res = "ok"

(* C11: when the last call of a run is a delete issued by _delete_single
   (in a fallback or over the old partition) and it answered not-found, the
   message is the last element of the outcome, and the loop has gone on: it
   stands at the next message of the chunk or of the old partition, or, the
   message being the last of its chunk or partition, the loop has ended
   normally. *)
ByDeleteSingle(c) == c.op = "delete" /\ c.site \in {"fallback", "old"}

C11_NotFoundIsSuccess ==
    \A r \in RunIds :
        ( /\ calls[r] # <<>>
          /\ ByDeleteSingle(Last(calls[r]))
          /\ Last(calls[r]).res = "notfound" ) =>
            LET c == Last(calls[r])
                msg == c.items[1]
            IN /\ deleted[r] # <<>>
               /\ Last(deleted[r]) = msg
               /\ c.site = "old" =>
                      IF msg # Last(old_msgs[r])
                      THEN pc[r] = "old" /\ k[r] >= 2 /\ old_msgs[r][k[r] - 1] = msg
                      ELSE pc[r] \in {"report", "done"}
               /\ c.site = "fallback" =>
                      IF pc[r] = "fallback"
                      THEN j[r] >= 2 /\ bulk_msgs[r][i[r] + j[r] - 1] = msg
                      ELSE /\ pc[r] \in {"bulk", "old", "report", "done"}
                           /\ msg = bulk_msgs[r][Min(i[r], Len(bulk_msgs[r]))]

C11_Witness ==
    \E r \in RunIds :
        /\ Len(calls[r]) >= 2
        /\ calls[r][Len(calls[r]) - 1].site = "old"
        /\ calls[r][Len(calls[r]) - 1].res = "notfound"
        /\ Last(calls[r]).site = "old"
        /\ Len(deleted[r]) >= 1
        /\ \E n \in 1..Len(deleted[r]) :
               deleted[r][n] = calls[r][Len(calls[r]) - 1].items[1]

(* C12: when a delete of the loop over the old partition ends in a hard
   failure, at the partition's k-th message, the deletes of that loop are
   those of the partition's messages 1..k in order, the outcome's messages
   of the old partition are exactly its messages 1..k-1, the k-th is not in
   the outcome, and the loop is over: no delete follows. *)
OldCalls(r) ==
    LET old(c) == c.site = "old" IN SelectSeq(calls[r], old)

C12_OldStopsAtHard ==
    \A r \in RunIds :
        ( /\ calls[r] # <<>>
          /\ Last(calls[r]).site = "old"
          /\ Last(calls[r]).res = "hard" ) =>
            LET oc == OldCalls(r)
                kk == Len(oc)
                inOld(m) == m \in Items(old_msgs[r])
            IN /\ kk <= Len(old_msgs[r])
               /\ \A q \in 1..kk : oc[q].items = <<old_msgs[r][q]>>
               /\ \A q \in 1..(kk - 1) : oc[q].res # "hard"
               /\ SelectSeq(deleted[r], inOld) = SubSeq(old_msgs[r], 1, kk - 1)
               /\ old_msgs[r][kk] \notin Items(deleted[r])
               /\ pc[r] \in {"report", "done"}

C12_Witness ==
    \E r \in RunIds :
        /\ Len(old_msgs[r]) >= 10
        /\ Len(calls[r]) >= 9
        /\ Last(calls[r]) = Call("delete", "old", <<old_msgs[r][9]>>, "hard")
        /\ deleted[r] = SubSeq(old_msgs[r], 1, 8)
        /\ Finished(r)

(* C13: in a finished run with a non-empty old partition, a hard failure of
   a fallback delete (the batch deleter's abort) is followed at once by the
   delete of the old partition's first message. *)
C13_OldAfterBulkAbort ==
    \A r \in RunIds :
        Finished(r) /\ old_msgs[r] # <<>> =>
            \A h \in 1..Len(calls[r]) :
                calls[r][h].site = "fallback" /\ calls[r][h].res = "hard" =>
                    /\ h + 1 <= Len(calls[r])
                    /\ calls[r][h + 1].op = "delete"
                    /\ calls[r][h + 1].site = "old"
                    /\ calls[r][h + 1].items = <<old_msgs[r][1]>>

C13_Witness ==
    \E r \in RunIds :
        /\ Finished(r)
        /\ Len(bulk_msgs[r]) = 100
        /\ Len(calls[r]) >= 3
        /\ calls[r][Len(calls[r]) - 2].op = "batch"
        /\ calls[r][Len(calls[r]) - 1].site = "fallback"
        /\ calls[r][Len(calls[r]) - 1].res = "hard"
        /\ Last(calls[r]) = Call("delete", "old", <<old_msgs[r][1]>>, "ok")
        /\ deleted[r] = old_msgs[r]

(* C14, as claimed: in a finished run, a delete or batch-delete call that
   ended in a hard failure is the last call of the run. *)
C14_Original ==
    \A r \in RunIds :
        Finished(r) =>
            \A h \in 1..Len(calls[r]) :
                IsDeletion(calls[r][h]) /\ calls[r][h].res = "hard" =>
                    h = Len(calls[r])

(* C14, amended: in a finished run, a hard failure ends the loop it occurs
   in and no more: after a hard failure of a chunk's own call (the batch
   call, or the delete of a chunk of one) the next call is the fallback
   delete of that chunk's first message; after a hard failure of a fallback
   delete no chunk call and no fallback delete follows, and the old
   partition, if there is one, is attempted next; a hard failure of a delete
   of the old partition is the last call of the run. *)
C14_HardFailureEndsItsLoop ==
    \A r \in RunIds :
        Finished(r) =>
            \A h \in 1..Len(calls[r]) :
                IsDeletion(calls[r][h]) /\ calls[r][h].res = "hard" =>
                    /\ calls[r][h].site = "chunk" =>
                           /\ h < Len(calls[r])
                           /\ calls[r][h + 1] \in
                                  { Call("delete", "fallback", <<calls[r][h].items[1]>>, res) :
                                        res \in {"ok", "notfound", "hard"} }
                    /\ calls[r][h].site = "fallback" =>
                           /\ \A n \in (h + 1)..Len(calls[r]) : calls[r][n].site = "old"
                           /\ old_msgs[r] # <<>> => h < Len(calls[r])
                    /\ calls[r][h].site = "old" => h = Len(calls[r])

C14_Witness ==
    \E r \in RunIds :
        /\ Finished(r)
        /\ Len(calls[r]) >= 3
        /\ calls[r][Len(calls[r]) - 2].op = "batch"
        /\ calls[r][Len(calls[r]) - 2].res = "hard"
        /\ calls[r][Len(calls[r]) - 1].site = "fallback"
        /\ calls[r][Len(calls[r]) - 1].res = "hard"
        /\ Last(calls[r]).site = "old"
        /\ Last(calls[r]).res = "hard"
        /\ deleted[r] = <<>>

(* C15: every step leaves each run's outcome as it is or extends it at the
   end: the outcome before the step is a prefix of the outcome after it. *)
IsPrefix(s, t) == Len(s) <= Len(t) /\ SubSeq(t, 1, Len(s)) = s

C15_AppendOnly ==
    [][\A r \in RunIds : deleted'[r] # deleted[r] => IsPrefix(deleted[r], deleted'[r])]_vars

C15_Witness ==
    \E r \in RunIds :
        /\ Len(bulk_msgs[r]) > 100
        /\ Len(deleted[r]) > 100
        /\ Len(deleted[r]) < Len(bulk_msgs[r])
        /\ SubSeq(deleted[r], 1, 100) = SubSeq(bulk_msgs[r], 1, 100)
        /\ Last(calls[r]).site = "fallback"
        /\ Last(calls[r]).res = "hard"
        /\ \E n \in 1..Len(calls[r]) : calls[r][n].op = "batch" /\ calls[r][n].res = "hard"

(* C16: a run's outcome never holds the same message twice. *)
C16_NoDuplicates ==
    \A r \in RunIds : Cardinality(Items(deleted[r])) = Len(deleted[r])

C16_Witness ==
    \E r \in RunIds :
        /\ Finished(r)
        /\ Len(deleted[r]) = 3
        /\ deleted[r] = messages[r]
        /\ \E n \in 1..Len(calls[r]) : calls[r][n].op = "batch" /\ calls[r][n].res = "hard"
        /\ \E n \in 1..Len(calls[r]) : calls[r][n].res = "notfound"
        /\ Last(calls[r]).site = "old"

(* C17: once a run has issued a delete or batch-delete call, whatever the
   calls answered, no exception has left the run; a hard failure that ends
   the deletion leaves the run at its report; and the finished run has
   reported the outcome it had: the summary, or "nothing" if it is empty. *)
C17_DeleteFailuresNotRaised ==
    \A r \in RunIds :
        calls[r] # <<>> /\ IsDeletion(Last(calls[r])) =>
            /\ pc[r] \in {"bulk", "fallback", "old", "report", "done"}
            /\ result[r] \in {"none", "nothing", "summary"}
            /\ ( /\ Last(calls[r]).res = "hard"
                 /\ ByDeleteSingle(Last(calls[r]))
                 /\ (Last(calls[r]).site = "old" \/ old_msgs[r] = <<>>) ) =>
                   pc[r] \in {"report", "done"}
            /\ Finished(r) =>
                   result[r] = IF deleted[r] = <<>> THEN "nothing" ELSE "summary"

C17_Witness ==
    \E r \in RunIds :
        /\ Finished(r)
        /\ result[r] = "summary"
        /\ Len(deleted[r]) = 1
        /\ Len(messages[r]) = 3
        /\ Len(calls[r]) >= 3
        /\ calls[r][Len(calls[r]) - 2].res = "hard"
        /\ calls[r][Len(calls[r]) - 1].res = "ok"
        /\ Last(calls[r]).res = "hard"

(* C18: a run one of whose history reads raised has ended with the error:
   it has issued no delete and no batch-delete call, also when the scan had
   matched messages, its outcome is empty, and it has reported nothing. *)
C18_HistoryErrorPropagates ==
    \A r \in RunIds :
        result[r] = "error" =>
            /\ pc[r] = "raised"
            /\ deleted[r] = <<>>
            /\ \A n \in 1..Len(calls[r]) : ~IsDeletion(calls[r][n])

C18_Witness ==
    \E r \in RunIds :
        /\ pc[r] = "raised"
        /\ result[r] = "error"
        /\ Len(messages[r]) >= 2
        /\ examined[r] >= 2

(* C19: a finished run none of whose _delete_single calls ended in a hard
   failure has recorded every message it collected, each once, those
   removed by another actor between the scan and the run's delete included:
   a not-found answer has neither stopped the run nor failed it. *)
NoSingleHard(r) ==
    \A n \in 1..Len(calls[r]) :
        ByDeleteSingle(calls[r][n]) => calls[r][n].res # "hard"

C19_RacedItemRecorded ==
    \A r \in RunIds :
        Finished(r) /\ messages[r] # <<>> /\ NoSingleHard(r) =>
            /\ result[r] = "summary"
            /\ Len(deleted[r]) = Len(messages[r])
            /\ Items(deleted[r]) = Items(messages[r])

C19_Witness ==
    \E r \in RunIds :
        /\ Finished(r)
        /\ external = 1
        /\ NoSingleHard(r)
        /\ Len(messages[r]) = 3
        /\ Len(calls[r]) >= 2
        /\ calls[r][Len(calls[r]) - 1].res = "notfound"
        /\ calls[r][Len(calls[r]) - 1].items[1] \in Items(deleted[r])
        /\ Last(calls[r]).res = "ok"
        /\ Len(deleted[r]) = 3

(* C20: in the breakdown of a reported summary every line carries an author
   of the outcome with the number of the outcome's messages by that author,
   no author has two lines, and of any two lines the upper one has the
   greater count or, the counts being equal, the author seen first in the
   outcome. *)
CountOf(dl, a) == Cardinality({n \in 1..Len(dl) : display_name(dl[n]) = a})

FirstSeen(dl, a) ==
    CHOOSE n \in 1..Len(dl) :
        /\ display_name(dl[n]) = a
        /\ \A q \in 1..(n - 1) : display_name(dl[q]) # a

C20_BreakdownOrder ==
    \A r \in RunIds :
        result[r] = "summary" =>
            LET b == report[r].breakdown
                dl == deleted[r]
            IN /\ b # <<>>
               /\ \A p \in 1..Len(b) :
                      /\ CountOf(dl, b[p][1]) = b[p][2]
                      /\ b[p][2] >= 1
               /\ \A p, q \in 1..Len(b) :
                      p < q =>
                          /\ b[p][1] # b[q][1]
                          /\ \/ b[p][2] > b[q][2]
                             \/ /\ b[p][2] = b[q][2]
                                /\ FirstSeen(dl, b[p][1]) < FirstSeen(dl, b[q][1])

C20_Witness ==
    \E r \in RunIds :
        /\ result[r] = "summary"
        /\ Len(deleted[r]) = 4
        /\ display_name(deleted[r][1]) = 3
        /\ display_name(deleted[r][3]) = 2
        /\ report[r].breakdown = << <<1, 2>>, <<3, 1>>, <<2, 1>> >>

(* C21: the breakdown of a reported summary of an outcome with d distinct
   authors has min(d, 10) lines; every author left out ranks below every
   author listed (a smaller count, or an equal count and a later first
   message); the remainder is d - 10 when d > 10 and there is no remainder
   note (0) when d <= 10. *)
AuthorsOf(dl) == {display_name(dl[n]) : n \in 1..Len(dl)}

C21_TopTenAndRemainder ==
    \A r \in RunIds :
        result[r] = "summary" =>
            LET b == report[r].breakdown
                dl == deleted[r]
                d == Cardinality(AuthorsOf(dl))
                listed == {b[p][1] : p \in 1..Len(b)}
            IN /\ Len(b) <= 10
               /\ Len(b) = Min(d, 10)
               /\ listed \subseteq AuthorsOf(dl)
               /\ Cardinality(listed) = Len(b)
               /\ \A a \in AuthorsOf(dl) \ listed : \A p \in 1..Len(b) :
                      \/ CountOf(dl, a) < b[p][2]
                      \/ /\ CountOf(dl, a) = b[p][2]
                         /\ FirstSeen(dl, b[p][1]) < FirstSeen(dl, a)
               /\ report[r].more = IF d > 10 THEN d - 10 ELSE 0

C21_Witness ==
    \E r \in RunIds :
        /\ result[r] = "summary"
        /\ Cardinality(AuthorsOf(deleted[r])) = 12
        /\ Len(report[r].breakdown) = 10
        /\ report[r].breakdown[1] = <<12, 2>>
        /\ report[r].breakdown[10] = <<9, 1>>
        /\ report[r].more = 2

(* C22: a finished run whose purge returned reported "nothing matched", with
   no embed, exactly when its outcome is empty, and the summary, whose embed
   carries the outcome's length and a non-empty breakdown, exactly when the
   outcome is not empty. *)
C22_NothingIffEmpty ==
    \A r \in RunIds :
        Finished(r) /\ result[r] \in {"nothing", "summary"} =>
            /\ result[r] = "nothing" <=> deleted[r] = <<>>
            /\ result[r] = "nothing" => report[r] = NoEmbed
            /\ result[r] = "summary" =>
                   /\ report[r].count = Len(deleted[r])
                   /\ report[r].breakdown # <<>>

C22_Witness ==
    \E r \in RunIds :
        /\ Finished(r)
        /\ result[r] = "nothing"
        /\ report[r] = NoEmbed
        /\ Len(messages[r]) = 2
        /\ deleted[r] = <<>>
        /\ Last(calls[r]).res = "hard"

(* C25: every step of a run keeps the order validate, (confirm), prepare,
   scan, delete, report: the confirmation is asked first and of a valid
   limit; prepare is issued for a valid limit and, above the threshold,
   right after the confirmation was given, before any history read; a
   history read is made only after prepare and before any delete or
   batch-delete call; a delete or batch-delete call is issued only once the
   scan is over; the report is sent after the last call, and no call and no
   history read follows it. *)
Reported(r) == result[r] \in {"nothing", "summary"}

C25_PhaseOrder ==
    [][\A r \in RunIds :
        /\ calls'[r] # calls[r] =>
               LET c == Last(calls'[r])
               IN /\ ~Reported(r)
                  /\ c.op = "confirm" =>
                         /\ calls[r] = <<>>
                         /\ ValidLimit(limit[r])
                         /\ examined[r] = 0
                  /\ c.op = "prepare" =>
                         /\ ValidLimit(limit[r])
                         /\ examined[r] = 0
                         /\ calls[r] = IF limit[r] > 100
                                       THEN <<Call("confirm", "prompt", <<>>, "yes")>>
                                       ELSE <<>>
                  /\ IsDeletion(c) =>
                         /\ calls[r] # <<>>
                         /\ Last(calls[r]).op = "prepare" \/ IsDeletion(Last(calls[r]))
                         /\ ScanOver(r)
                         /\ messages'[r] = messages[r]
        /\ examined'[r] # examined[r] =>
               /\ calls[r] # <<>>
               /\ Last(calls[r]).op = "prepare"
               /\ ~Reported(r)
        /\ result'[r] # result[r] /\ result'[r] \in {"nothing", "summary"} =>
               /\ calls'[r] = calls[r]
               /\ calls[r] # <<>>
               /\ ScanOver(r)
      ]_vars

C25_Witness ==
    \E r \in RunIds :
        /\ Finished(r)
        /\ result[r] = "summary"
        /\ Len(calls[r]) = 4
        /\ calls[r][1].op = "confirm"
        /\ calls[r][2].op = "prepare"
        /\ calls[r][3].op = "batch"
        /\ calls[r][4].site = "old"
        /\ examined[r] = 3
        /\ Len(deleted[r]) = 3

(* C26: when purge has returned, the outcome is the first a messages of the
   bulk partition followed by the first b messages of the old partition,
   for some a and b; and no call for the bulk partition follows a call for
   the old partition. *)
C26_PrefixOfBulkThenOld ==
    \A r \in RunIds :
        /\ pc[r] = "report" =>
               LET b == Len(OldOf(deleted[r], bulk_cutoff[r]))
                   a == Len(deleted[r]) - b
               IN /\ a <= Len(bulk_msgs[r])
                  /\ b <= Len(old_msgs[r])
                  /\ deleted[r] = SubSeq(bulk_msgs[r], 1, a) \o SubSeq(old_msgs[r], 1, b)
        /\ Len(calls[r]) >= 2 /\ calls[r][Len(calls[r]) - 1].site = "old" =>
               Last(calls[r]).site = "old"

C26_Witness ==
    \E r \in RunIds :
        /\ pc[r] = "report"
        /\ Len(bulk_msgs[r]) = 2
        /\ Len(old_msgs[r]) = 1
        /\ deleted[r] = <<bulk_msgs[r][1], old_msgs[r][1]>>
        /\ Len(calls[r]) >= 2
        /\ calls[r][Len(calls[r]) - 1].site = "fallback"
        /\ calls[r][Len(calls[r]) - 1].res = "hard"
        /\ Last(calls[r]).site = "old"

(* C27: when the fallback of a chunk has come to the chunk's last message
   without a hard failure, the run is no longer in a fallback: it stands at
   the next chunk's own call if there is a next chunk; and a chunk call that
   follows a fallback delete follows one that did not fail hard and carries
   the whole next chunk, as a batch call or, for one message, as a delete. *)
C27_FallbackConfinedToChunk ==
    \A r \in RunIds :
        Len(calls[r]) >= 2 =>
            LET c == Last(calls[r])
                pr == calls[r][Len(calls[r]) - 1]
                n == Len(bulk_msgs[r])
            IN /\ ( /\ c.site = "fallback"
                    /\ c.res # "hard"
                    /\ i[r] > 0
                    /\ c.items = <<bulk_msgs[r][Min(i[r], n)]>> ) =>
                       /\ pc[r] # "fallback"
                       /\ pc[r] = "bulk" <=> i[r] < n
               /\ c.site = "chunk" /\ pr.site = "fallback" =>
                       /\ pr.res # "hard"
                       /\ \E q \in {m \in 1..n : m % 100 = 0} :
                              /\ pr.items = <<bulk_msgs[r][q]>>
                              /\ c.items = SubSeq(bulk_msgs[r], q + 1, Min(q + 100, n))
                       /\ c.op = IF Len(c.items) = 1 THEN "delete" ELSE "batch"

C27_Witness ==
    \E r \in RunIds :
        /\ Len(bulk_msgs[r]) = 150
        /\ Len(calls[r]) >= 102
        /\ calls[r][Len(calls[r]) - 101].op = "batch"
        /\ calls[r][Len(calls[r]) - 101].res = "hard"
        /\ calls[r][Len(calls[r]) - 1].site = "fallback"
        /\ calls[r][Len(calls[r]) - 1].res = "ok"
        /\ Last(calls[r]).op = "batch"
        /\ Len(Last(calls[r]).items) = 50
        /\ Len(deleted[r]) = 150

(* C23: a regex command whose pattern does not compile is answered with the
   regex error and is over at once, whatever its limit: no confirm, no
   prepare, no history read and no delete call is issued for it. *)
C23_BadRegexRejectedFirst ==
    \A r \in RunIds :
        Started(r) /\ ~pattern[r].compiles =>
            /\ Finished(r)
            /\ result[r] = "badregex"
            /\ NoPurgeActivity(r)

C23_Witness ==
    \E r \in RunIds :
        /\ pattern[r].text = "("
        /\ ~ValidLimit(limit[r])
        /\ result[r] = "badregex"

(* C24: the invoking message of a text command is never part of the run's
   deleted list, whether or not _prepare deleted it. *)
C24_InvokingMessageNotInOutcome ==
    \A r \in RunIds :
        ~interaction[r] => InvocationId(r) \notin Items(deleted[r])

(* C29: a step of one run (its position, its calls or its history reads
   change) leaves the matched list, its two partitions and the deleted list
   of every other run as they were. *)
StepOf(r) == pc'[r] # pc[r] \/ calls'[r] # calls[r] \/ examined'[r] # examined[r]

C29_RunsShareNoPurgeState ==
    [][\A r \in RunIds : StepOf(r) =>
           \A q \in RunIds \ {r} :
               /\ messages'[q] = messages[q]
               /\ bulk_msgs'[q] = bulk_msgs[q]
               /\ old_msgs'[q] = old_msgs[q]
               /\ deleted'[q] = deleted[q]]_vars

C29_Witness ==
    \E r \in RunIds, q \in RunIds :
        /\ r # q
        /\ pc[r] \in {"bulk", "fallback", "old"}
        /\ pc[q] \in {"bulk", "fallback", "old"}
        /\ deleted[r] # <<>>
        /\ messages[q] # <<>>
        /\ deleted[q] = <<>>

(* C30, as claimed: every run that was invoked eventually reaches Done. *)
C30_Original == \A r \in RunIds : Started(r) ~> Finished(r)

(* C30, amended: every run that was invoked eventually ends: it reaches
   Done, or a history read has raised and the exception has left it. *)
Ended(r) == pc[r] \in {"done", "raised"}

C30_Terminates == \A r \in RunIds : Started(r) ~> Ended(r)

C30_Witness ==
    \E r \in RunIds :
        /\ Finished(r)
        /\ examined[r] = scan_limit(limit[r])
        /\ ChannelLen(channel) > examined[r]
        /\ Len(messages[r]) < limit[r]
        /\ result[r] = "nothing"

(* C32: the emoji predicate accepts a message exactly when its body has a
   character that is not whitespace and is made up of nothing but custom
   emoji (<:name:id> or <a:name:id>), characters of the emoji ranges,
   joiners or variation selectors, and whitespace. *)
IsCustomEmoji(t) ==
    \E hl \in {2, 3}, nl \in 1..Len(t), dl \in 1..Len(t) :
        /\ Len(t) = hl + nl + dl + 2
        /\ SubSeq(t, 1, hl) = (IF hl = 2 THEN <<"<", ":">> ELSE <<"<", "a", ":">>)
        /\ \A p \in (hl + 1)..(hl + nl) : t[p] \in {"a", "w", "d"}
        /\ t[hl + nl + 1] = ":"
        /\ \A p \in (hl + nl + 2)..(hl + nl + dl + 1) : t[p] = "d"
        /\ t[Len(t)] = ">"

RECURSIVE MadeOfEmoji(_, _)
MadeOfEmoji(s, p) ==
    \/ p > Len(s)
    \/ s[p] \in {"E", "J", "S"} /\ MadeOfEmoji(s, p + 1)
    \/ \E e \in p..Len(s) : IsCustomEmoji(SubSeq(s, p, e)) /\ MadeOfEmoji(s, e + 1)

EmojiOnly(body) ==
    /\ \E p \in 1..Len(body) : body[p] # "S"
    /\ MadeOfEmoji(body, 1)

C32_EmojiOnly ==
    \A r \in RunIds :
        examined[r] >= 1 /\ channel \in EmojiChannels =>
            (messages[r] = <<1>> <=> EmojiOnly(KindAt(channel, 1).content))

C32_Witness ==
    \E r \in RunIds :
        /\ channel \in EmojiChannels
        /\ KindAt(channel, 1).content =
               <<"E", "J", "E", "<", ":", "w", ":", "d", ">", "S", "E">>
        /\ messages[r] = <<1>>

(* C33: every message a delete or batch-delete call of purge is given was
   collected by the scan: it is in the matched list, the predicate accepts
   it, and it lies older than the before bound and newer than the after
   bound of the run.  The last call stands for every call, each was the
   last one when it was issued. *)
InBounds(r, m) ==
    /\ before[r] # None => m > before[r]
    /\ after[r] # None => m < after[r]

C33_OnlyScannedMatchesTargeted ==
    \A r \in RunIds :
        calls[r] # <<>> /\ IsDeletion(Last(calls[r])) =>
            \A n \in 1..Len(Last(calls[r]).items) :
                LET m == Last(calls[r]).items[n]
                IN /\ m \in Items(messages[r])
                   /\ check(m)
                   /\ InBounds(r, m)

C33_Witness ==
    \E r \in RunIds :
        /\ before[r] = 1
        /\ ChannelLen(channel) = 2
        /\ check(1)
        /\ calls[r] # <<>>
        /\ IsDeletion(Last(calls[r]))
        /\ Last(calls[r]).items = <<2>>

(* C34: when a run is over, every message in its deleted list is gone from
   the channel, whether its own call removed it or the call was answered
   NotFound because another actor had removed it. *)
C34_OutcomeItemsAreGone ==
    \A r \in RunIds :
        Finished(r) => Items(deleted[r]) \subseteq gone

C34_Witness ==
    \E r \in RunIds :
        /\ Finished(r)
        /\ Len(deleted[r]) = 2
        /\ \E n \in 1..Len(calls[r]) : calls[r][n].res = "notfound"
        /\ \E n \in 1..Len(calls[r]) : IsDeletion(calls[r][n]) /\ calls[r][n].res = "ok"

(* C35: within one run no message is the target of more than one
   single-message delete call. *)
SingleDeletes(r, m) ==
    {n \in 1..Len(calls[r]) : calls[r][n].op = "delete" /\ calls[r][n].items = <<m>>}

C35_AtMostOneSingleDelete ==
    \A r \in RunIds :
        \A m \in Items(messages[r]) : Cardinality(SingleDeletes(r, m)) <= 1

(* C36, as claimed: a run that collected at least one message does not
   answer that no message matched. *)
C36_Original ==
    \A r \in RunIds :
        Finished(r) /\ result[r] = "nothing" => messages[r] = <<>>

(* C36, amended: a run answers that no message matched only when the scan
   collected nothing, or when it collected messages and recorded none: no
   delete or batch-delete call it issued succeeded, and every call of
   _delete_single failed hard. *)
AllDeletionsFailed(r) ==
    /\ \E n \in 1..Len(calls[r]) : IsDeletion(calls[r][n])
    /\ \A n \in 1..Len(calls[r]) :
           IsDeletion(calls[r][n]) =>
               /\ calls[r][n].res # "ok"
               /\ ByDeleteSingle(calls[r][n]) => calls[r][n].res = "hard"

C36_NothingOnlyIfNothingDeleted ==
    \A r \in RunIds :
        Finished(r) /\ result[r] = "nothing" =>
            messages[r] = <<>> \/ AllDeletionsFailed(r)

C36_Witness ==
    \E r \in RunIds :
        /\ Finished(r)
        /\ result[r] = "nothing"
        /\ Len(messages[r]) = 2
        /\ AllDeletionsFailed(r)

(* C37: two runs never both record the same message as deleted. *)
C37_OutcomesDisjoint ==
    \A r \in RunIds, q \in RunIds :
        r # q => Items(deleted[r]) \cap Items(deleted[q]) = {}

(* C38: when a run is about to issue a batch-delete call, every message of
   the chunk is younger than BULK_DELETE_LIMIT at that moment. *)
C38_BatchItemsYoungAtCall ==
    \A r \in RunIds :
        pc[r] = "bulk" /\ ~UseSingle(Chunk(bulk_msgs[r], i[r])) =>
            \A m \in Items(Chunk(bulk_msgs[r], i[r])) :
                created_at(m) > now - BULK_DELETE_LIMIT

(* C31: two runs that are over with the same deleted list have given the
   same answer and the same report, also when one of them was stopped by a
   hard failure and the other deleted everything it had collected. *)
StoppedEarly(r) ==
    /\ Len(deleted[r]) < Len(messages[r])
    /\ \E n \in 1..Len(calls[r]) : IsDeletion(calls[r][n]) /\ calls[r][n].res = "hard"

C31_ReportDependsOnOutcomeOnly ==
    \A r \in RunIds, q \in RunIds :
        Reported(r) /\ Reported(q) /\ deleted[r] = deleted[q] =>
            /\ result[r] = result[q]
            /\ report[r] = report[q]

C31_Witness ==
    \E r \in RunIds, q \in RunIds :
        /\ Reported(r)
        /\ Reported(q)
        /\ deleted[r] = deleted[q]
        /\ deleted[r] # <<>>
        /\ StoppedEarly(r)
        /\ Len(deleted[q]) = Len(messages[q])
        /\ \A n \in 1..Len(calls[q]) : calls[q][n].res # "hard"
        /\ report[r] = report[q]
        /\ report[r].count = Len(deleted[r])

====
